---- MODULE Spec2Model ----
(***************************************************************************)
(* Model of src/model/endpoint_serving.py: the three inference handlers    *)
(* input_fn, predict_fn and output_fn, the library calls they make         *)
(* (json.loads, dict subscript, torch.tensor with dtype=bfloat16,          *)
(* logger.info, model_artifacts.predict) and the hosting runtime that      *)
(* calls them once per request.                                            *)
(*                                                                         *)
(* A request body is a sequence of JSON tokens (white space removed).      *)
(* Number tokens are integer literals; a lexically bad fragment is the     *)
(* token "bad".                                                            *)
(***************************************************************************)
EXTENDS Integers, Sequences, FiniteSets, TLC

\* ------------------------------------------------------------------ bounds

\* Longest row (innermost list) of an enumerated `inputs` value.
MaxCols == 2
\* Most rows of an enumerated nested `inputs` value.
MaxRows == 2
\* Longest request body enumerated token by token.
MaxShort == 2

\* ------------------------------------------------------------ JSON tokens

Tok(t, s, v) == [t |-> t, s |-> s, v |-> v]
LBRACE == Tok("{", "", 0)
RBRACE == Tok("}", "", 0)
LBRACK == Tok("[", "", 0)
RBRACK == Tok("]", "", 0)
COMMA == Tok(",", "", 0)
COLON == Tok(":", "", 0)
TRUE_T == Tok("true", "", 0)
FALSE_T == Tok("false", "", 0)
NULL_T == Tok("null", "", 0)
NAN_T == Tok("NaN", "", 0)
BAD_T == Tok("bad", "", 0)
NumT(n) == Tok("num", "", n)
StrT(s) == Tok("str", s, 0)

\* ------------------------------------------- Python values json.loads builds

PyVal(k, n, s, keys, items) == [k |-> k, n |-> n, s |-> s, keys |-> keys, items |-> items]
PyInt(n) == PyVal("int", n, "", <<>>, <<>>)
PyBool(b) == PyVal("bool", IF b THEN 1 ELSE 0, "", <<>>, <<>>)
PyNone == PyVal("none", 0, "", <<>>, <<>>)
PyNaN == PyVal("nan", 0, "", <<>>, <<>>)
PyStr(s) == PyVal("str", 0, s, <<>>, <<>>)
PyList(items) == PyVal("list", 0, "", <<>>, items)
PyDict(keys, items) == PyVal("dict", 0, "", keys, items)

\* dict.__setitem__ as the decoder's dict(pairs) applies it: a repeated key
\* keeps its first position and takes the last value.
KeyIndex(keys, key) == CHOOSE j \in 1..Len(keys) : keys[j] = key
HasKey(keys, key) == \E j \in 1..Len(keys) : keys[j] = key
DictKeys(keys, key) == IF HasKey(keys, key) THEN keys ELSE Append(keys, key)
DictVals(keys, vals, key, v) ==
    IF HasKey(keys, key) THEN [vals EXCEPT ![KeyIndex(keys, key)] = v]
    ELSE Append(vals, v)

\* --------------------------------------------------------------- json.loads

ParseFail == [ok |-> FALSE, val |-> PyNone, next |-> 0]
ParseOk(v, i) == [ok |-> TRUE, val |-> v, next |-> i]
TokAt(toks, i) == IF i <= Len(toks) THEN toks[i].t ELSE "eof"

RECURSIVE scan_once(_, _, _)
RECURSIVE JSONArray(_, _, _, _)
RECURSIVE JSONObject(_, _, _, _, _)

\* json.decoder.JSONArray after "[" and at least one element to read:
\* a value, then "]" (done) or "," (another value must follow).
JSONArray(toks, i, lenient, acc) ==
    LET r == scan_once(toks, i, lenient) IN
    IF ~r.ok THEN ParseFail
    ELSE LET t == TokAt(toks, r.next) IN
         IF t = "]" THEN ParseOk(PyList(Append(acc, r.val)), r.next + 1)
         ELSE IF t = "," THEN JSONArray(toks, r.next + 1, lenient, Append(acc, r.val))
         ELSE ParseFail

\* json.decoder.JSONObject at a member: a string key, ":", a value, then "}"
\* (done) or "," (another member must follow).
JSONObject(toks, i, lenient, keys, vals) ==
    IF TokAt(toks, i) # "str" \/ TokAt(toks, i + 1) # ":" THEN ParseFail
    ELSE LET r == scan_once(toks, i + 2, lenient) IN
         IF ~r.ok THEN ParseFail
         ELSE LET t == TokAt(toks, r.next)
                  ks == DictKeys(keys, toks[i].s)
                  vs == DictVals(keys, vals, toks[i].s, r.val) IN
              IF t = "}" THEN ParseOk(PyDict(ks, vs), r.next + 1)
              ELSE IF t = "," THEN JSONObject(toks, r.next + 1, lenient, ks, vs)
              ELSE ParseFail

\* json.scanner.py_make_scanner._scan_once.  `lenient` is whether the
\* constant NaN is accepted: json.loads accepts it (parse_constant), the
\* JSON grammar of RFC 8259 does not.
scan_once(toks, i, lenient) ==
    LET t == TokAt(toks, i) IN
    CASE t = "str" -> ParseOk(PyStr(toks[i].s), i + 1)
      [] t = "num" -> ParseOk(PyInt(toks[i].v), i + 1)
      [] t = "true" -> ParseOk(PyBool(TRUE), i + 1)
      [] t = "false" -> ParseOk(PyBool(FALSE), i + 1)
      [] t = "null" -> ParseOk(PyNone, i + 1)
      [] t = "NaN" -> IF lenient THEN ParseOk(PyNaN, i + 1) ELSE ParseFail
      [] t = "[" -> IF TokAt(toks, i + 1) = "]" THEN ParseOk(PyList(<<>>), i + 2)
                    ELSE JSONArray(toks, i + 1, lenient, <<>>)
      [] t = "{" -> IF TokAt(toks, i + 1) = "}" THEN ParseOk(PyDict(<<>>, <<>>), i + 2)
                    ELSE JSONObject(toks, i + 1, lenient, <<>>, <<>>)
      [] OTHER -> ParseFail

\* json.JSONDecoder.decode: one value, and nothing after it ("Extra data").
decode(toks, lenient) ==
    LET r == scan_once(toks, 1, lenient) IN
    IF r.ok /\ r.next = Len(toks) + 1 THEN [ok |-> TRUE, val |-> r.val]
    ELSE [ok |-> FALSE, val |-> PyNone]

\* json.loads(request_body) as input_fn calls it: default decoder.
json_loads(request_body) == decode(request_body, TRUE)

\* ------------------------------------------------------------ obj["inputs"]

Outcome(ok, value, err) == [ok |-> ok, value |-> value, err |-> err]

\* data["inputs"]: dict.__getitem__ raises KeyError for a missing key; a list
\* or str rejects a str index and every other value is not subscriptable
\* (TypeError).
getitem_inputs(obj) ==
    IF obj.k = "dict"
    THEN IF HasKey(obj.keys, "inputs")
         THEN Outcome(TRUE, obj.items[KeyIndex(obj.keys, "inputs")], "")
         ELSE Outcome(FALSE, PyNone, "KeyError")
    ELSE Outcome(FALSE, PyNone, "TypeError")

\* ------------------------------------------------------------ torch.bfloat16

Abs(n) == IF n < 0 THEN -n ELSE n

RECURSIVE Pow2(_)
Pow2(e) == IF e = 0 THEN 1 ELSE 2 * Pow2(e - 1)

RECURSIVE FloorLog2(_)
FloorLog2(a) == IF a < 2 THEN 0 ELSE 1 + FloorLog2(a \div 2)

\* Bits of a bfloat16 significand (7 stored and the implicit leading one).
SignificandBits == 8

\* The bfloat16 nearest to the integer n, ties to even (c10::BFloat16 from
\* float, round_to_nearest_even). Integers below 2^24 reach it through an
\* exact double and float, so the rounding happens once.
to_bfloat16(n) ==
    LET a == Abs(n)
        e == FloorLog2(a) IN
    IF e < SignificandBits THEN n
    ELSE LET ulp == Pow2(e - (SignificandBits - 1))
             q == a \div ulp
             rem == a % ulp
             up == 2 * rem > ulp \/ (2 * rem = ulp /\ q % 2 = 1)
             m == IF up THEN (q + 1) * ulp ELSE q * ulp IN
         IF n < 0 THEN -m ELSE m

\* One element of a bfloat16 tensor.
Elem(nan, n) == [nan |-> nan, n |-> n]

\* -------------------------------------------------------------- torch.tensor

Tensor(shape, data) == [shape |-> shape, data |-> data]
\* The handlers' local before it is assigned (no tensor: a rank-0 tensor has
\* one element).
NoTensor == Tensor(<<>>, <<>>)

\* len() of the strings the enumerated bodies hold.
StrLen(s) == CASE s = "" -> 0 [] s = "x" -> 1 [] s = "inputs" -> 6 [] s = "other" -> 5

\* PySequence_Check: list and str are sequences, dict is not.
PySequence_Check(v) == v.k \in {"list", "str"}
PySequence_Length(v) == IF v.k = "list" THEN Len(v.items) ELSE StrLen(v.s)

\* PySequence_Fast: list(v) of any iterable: a list's items, a str's
\* characters (one-character strings), a dict's keys.
IsIterable(v) == v.k \in {"list", "str", "dict"}
PySequence_Fast(v) ==
    CASE v.k = "list" -> v.items
      [] v.k = "str" -> [j \in 1..StrLen(v.s) |-> PyStr("x")]
      [] v.k = "dict" -> [j \in 1..Len(v.keys) |-> PyStr(v.keys[j])]
      [] OTHER -> <<>>

\* tensor_new.cpp compute_sizes: follow the first elements while the value is
\* a sequence; a non-empty str never ends ("too many dimensions 'str'").
RECURSIVE compute_sizes(_)
compute_sizes(v) ==
    IF ~PySequence_Check(v) THEN [ok |-> TRUE, sizes |-> <<>>]
    ELSE IF PySequence_Length(v) = 0 THEN [ok |-> TRUE, sizes |-> <<0>>]
    ELSE IF v.k = "str" THEN [ok |-> FALSE, sizes |-> <<>>]
    ELSE LET r == compute_sizes(v.items[1]) IN
         [ok |-> r.ok, sizes |-> <<Len(v.items)>> \o r.sizes]

\* store_scalar for kBFloat16: THPUtils_unpackDouble then the cast. An int
\* and a bool (a subclass of int) unpack; None, str, list and dict raise
\* TypeError.
store_scalar(v) ==
    CASE v.k = "int" -> [ok |-> TRUE, data |-> <<Elem(FALSE, to_bfloat16(v.n))>>, err |-> ""]
      [] v.k = "bool" -> [ok |-> TRUE, data |-> <<Elem(FALSE, to_bfloat16(v.n))>>, err |-> ""]
      [] v.k = "nan" -> [ok |-> TRUE, data |-> <<Elem(TRUE, 0)>>, err |-> ""]
      [] OTHER -> [ok |-> FALSE, data |-> <<>>, err |-> "TypeError"]

\* tensor_new.cpp recursive_store: at the last dimension a scalar; before it
\* an iterable of exactly sizes[dim] items, stored in order.
RECURSIVE recursive_store(_, _)
RECURSIVE store_items(_, _, _, _)
RECURSIVE store_items_reversed(_, _, _, _)
\* A store that writes each item before the ones already written.
store_items_reversed(items, j, sizes, acc) ==
    IF j > Len(items) THEN [ok |-> TRUE, data |-> acc, err |-> ""]
    ELSE LET r == recursive_store(items[j], sizes) IN
         IF ~r.ok THEN r ELSE store_items_reversed(items, j + 1, sizes, r.data \o acc)

store_items(items, j, sizes, acc) ==
    IF j > Len(items) THEN [ok |-> TRUE, data |-> acc, err |-> ""]
    ELSE LET r == recursive_store(items[j], sizes) IN
         IF ~r.ok THEN r ELSE store_items(items, j + 1, sizes, acc \o r.data)

recursive_store(v, sizes) ==
    IF sizes = <<>> THEN store_scalar(v)
    ELSE IF ~IsIterable(v) THEN [ok |-> FALSE, data |-> <<>>, err |-> "TypeError"]
    ELSE IF Len(PySequence_Fast(v)) # Head(sizes)
         THEN [ok |-> FALSE, data |-> <<>>, err |-> "ValueError"]
    ELSE store_items(PySequence_Fast(v), 1, Tail(sizes), <<>>)

\* torch.tensor(data, dtype=torch.bfloat16).
torch_tensor(data) ==
    LET sz == compute_sizes(data) IN
    IF ~sz.ok THEN Outcome(FALSE, NoTensor, "ValueError")
    ELSE LET r == recursive_store(data, sz.sizes) IN
         IF r.ok THEN Outcome(TRUE, Tensor(sz.sizes, r.data), "")
         ELSE Outcome(FALSE, NoTensor, r.err)

\* ---------------------------------------------------- enumerated requests

\* json.dumps of a value, token by token (the client's side of the wire).
RECURSIVE Encode(_)
RECURSIVE EncodeItems(_, _)
RECURSIVE EncodeMembers(_, _, _)
EncodeItems(items, j) ==
    IF j > Len(items) THEN <<>>
    ELSE (IF j > 1 THEN <<COMMA>> ELSE <<>>) \o Encode(items[j]) \o EncodeItems(items, j + 1)
EncodeMembers(keys, items, j) ==
    IF j > Len(items) THEN <<>>
    ELSE (IF j > 1 THEN <<COMMA>> ELSE <<>>) \o <<StrT(keys[j]), COLON>>
         \o Encode(items[j]) \o EncodeMembers(keys, items, j + 1)
Encode(v) ==
    CASE v.k = "int" -> <<NumT(v.n)>>
      [] v.k = "bool" -> IF v.n = 1 THEN <<TRUE_T>> ELSE <<FALSE_T>>
      [] v.k = "none" -> <<NULL_T>>
      [] v.k = "nan" -> <<NAN_T>>
      [] v.k = "str" -> <<StrT(v.s)>>
      [] v.k = "list" -> <<LBRACK>> \o EncodeItems(v.items, 1) \o <<RBRACK>>
      [] v.k = "dict" -> <<LBRACE>> \o EncodeMembers(v.keys, v.items, 1) \o <<RBRACE>>

\* The number at flat position k of an enumerated series: distinct numbers,
\* some of them not representable in bfloat16.
NumAt(k) == IF k % 2 = 1 THEN 1000 + k ELSE -(255 + k)

\* Leaves a client may send where a number belongs.
OddLeaves ==
    {PyBool(TRUE), PyBool(FALSE), PyNone, PyNaN, PyStr("x"), PyStr(""),
     PyDict(<<>>, <<>>), PyList(<<>>), PyList(<<PyInt(9)>>), PyInt(0)}

\* A series of `total` numbers, the one at position p (0: none) replaced by s.
LeavesOf(total, p, s) == [k \in 1..total |-> IF k = p THEN s ELSE PyInt(NumAt(k))]

RECURSIVE SumTo(_, _)
SumTo(lens, i) == IF i = 0 THEN 0 ELSE lens[i] + SumTo(lens, i - 1)

\* The leaves cut into rows of the given lengths.
RowsOf(lens, leaves) ==
    [i \in 1..Len(lens) |->
        PyList(SubSeq(leaves, SumTo(lens, i - 1) + 1, SumTo(lens, i)))]

ScalarInputs == {PyInt(3), PyInt(1003), PyInt(-259)} \cup OddLeaves
FlatInputs ==
    {PyList(LeavesOf(c, 0, PyNone)) : c \in 0..MaxCols}
    \cup {PyList(LeavesOf(c, p, s)) : c \in 1..MaxCols, p \in 1..MaxCols, s \in OddLeaves}
RowLengths == UNION {[1..r -> 0..MaxCols] : r \in 1..MaxRows}
NestedInputs ==
    {PyList(RowsOf(lens, LeavesOf(SumTo(lens, Len(lens)), 0, PyNone))) : lens \in RowLengths}
    \cup {PyList(RowsOf(lens, LeavesOf(SumTo(lens, Len(lens)), p, s))) :
            lens \in RowLengths, p \in 1..(MaxRows * MaxCols), s \in OddLeaves}
InputsValues == ScalarInputs \cup FlatInputs \cup NestedInputs

\* The bodies a client may build around an `inputs` value v.
Framings(v) ==
    LET e == Encode(v) IN
    { <<LBRACE, StrT("inputs"), COLON>> \o e \o <<RBRACE>>,
      <<LBRACE, StrT("other"), COLON>> \o e \o <<RBRACE>>,
      <<LBRACE, StrT("other"), COLON, NumT(1), COMMA, StrT("inputs"), COLON>> \o e \o <<RBRACE>>,
      <<LBRACE, StrT("inputs"), COLON, NULL_T, COMMA, StrT("inputs"), COLON>> \o e \o <<RBRACE>>,
      <<LBRACE, StrT("inputs"), COLON>> \o e,
      <<LBRACE, StrT("inputs"), COLON>> \o e \o <<RBRACE, RBRACE>>,
      <<LBRACE, StrT("inputs"), COLON>> \o e \o <<COMMA, RBRACE>>,
      <<LBRACE, StrT("inputs"), COLON>> \o e \o <<BAD_T, RBRACE>>,
      <<LBRACE, StrT("inputs")>> \o e \o <<RBRACE>>,
      <<LBRACK>> \o e \o <<RBRACK>>,
      e }

Alphabet ==
    {LBRACE, RBRACE, LBRACK, RBRACK, COMMA, COLON, StrT("inputs"), StrT("x"),
     NumT(1), TRUE_T, NULL_T, NAN_T, BAD_T}
ShortBodies == UNION {[1..n -> Alphabet] : n \in 0..MaxShort}

\* Every request body the deserializer is checked on.
Bodies == ShortBodies \cup UNION {Framings(v) : v \in InputsValues}

\* The request bodies the whole pipeline is run on.
PipelineBodies ==
    { <<LBRACE, StrT("inputs"), COLON>> \o Encode(v) \o <<RBRACE>> :
        v \in {PyList(LeavesOf(3, 0, PyNone)),
               PyList(RowsOf(<<2, 2>>, LeavesOf(4, 0, PyNone))),
               PyList(<<>>),
               PyList(<<PyBool(TRUE), PyInt(2)>>),
               PyList(<<PyInt(1), PyStr("x")>>)} }
    \cup { <<LBRACE, BAD_T>>, <<LBRACE, StrT("other"), COLON, NumT(1), RBRACE>> }

ContentTypes == {"application/json", "text/csv"}
Requests == {1, 2}

\* ---------------------------------------------------------------- the state

VARIABLES
    model,             \* the model handle the runtime loaded
    pc,                \* per request: where the runtime is with it
    req_body,          \* per request: the raw payload
    req_content_type,  \* per request: the declared request content type
    accept,            \* per request: the declared response content type
    tensor,            \* per request: what input_fn returned
    prediction,        \* per request: what predict_fn returned
    response,          \* per request: what output_fn returned
    error,             \* per request: the error that ended it ("": none)
    trace,             \* per request: the handler calls made, in order
    log,               \* the process-wide logger's lines, in order
    model_calls,       \* the calls the model handle received, in order
    module_globals     \* the module's own state (the logger set up at import)

vars == <<model, pc, req_body, req_content_type, accept,
          tensor, prediction, response, error, trace, log, model_calls, module_globals>>

\* The module after import: the logger at INFO with one StreamHandler, and
\* no request-scoped value held.
ModuleGlobals == [level |-> "INFO", handlers |-> 1, held |-> <<>>]

\* ----------------------------------------------------------------- handlers

\* What one call of a handler did, in order ("log" lines, library and model
\* calls), how it ended, and the module's state when it returned.
Ran(events, out, globals) ==
    [events |-> events, ok |-> out.ok, value |-> out.value, err |-> out.err,
     globals |-> globals]
Log(msg) == [ev |-> "log", msg |-> msg]
Call(what) == [ev |-> "call", msg |-> what]

\* json.loads, ["inputs"] and torch.tensor one after the other: the tensor a
\* body stands for, or the error of the first that fails.
Deserialized(request_body) ==
    LET parsed == json_loads(request_body) IN
    IF ~parsed.ok THEN Outcome(FALSE, NoTensor, "JSONDecodeError")
    ELSE LET data == getitem_inputs(parsed.val) IN
         IF ~data.ok THEN Outcome(FALSE, NoTensor, data.err)
         ELSE torch_tensor(data.value)

\* An input_fn that answers a bad payload with an empty tensor.
input_fn_default(request_body, request_content_type) ==
    LET out == Deserialized(request_body) IN
    Ran(<<Log("Running input_fn"), Call("json.loads")>>,
        IF out.ok THEN out ELSE Outcome(TRUE, Tensor(<<0>>, <<>>), ""), module_globals)

\* An input_fn that logs once the payload is parsed.
input_fn_log_late(request_body, request_content_type) ==
    LET out == Deserialized(request_body) IN
    Ran(IF out.ok THEN <<Call("json.loads"), Call("torch.tensor"), Log("Running input_fn")>>
        ELSE <<Call("json.loads")>>, out, module_globals)

\* An input_fn that keeps the last tensor in a module-level cache and
\* answers from it.
input_fn_cached(request_body, request_content_type) ==
    LET out == Deserialized(request_body) IN
    IF module_globals.held # <<>>
    THEN Ran(<<Log("Running input_fn")>>, Outcome(TRUE, module_globals.held[1], ""),
             module_globals)
    ELSE Ran(<<Log("Running input_fn"), Call("json.loads")>>, out,
             IF out.ok THEN [module_globals EXCEPT !.held = <<out.value>>]
             ELSE module_globals)

\* An input_fn that accepts application/json only.
input_fn_typed(request_body, request_content_type) ==
    IF request_content_type # "application/json"
    THEN Ran(<<Log("Running input_fn")>>, Outcome(FALSE, NoTensor, "ValueError"),
             module_globals)
    ELSE Ran(<<Log("Running input_fn"), Call("json.loads")>>,
             Deserialized(request_body), module_globals)

\* input_fn(request_body, request_content_type)
input_fn(request_body, request_content_type) ==
    LET parsed == json_loads(request_body) IN
    IF ~parsed.ok
    THEN Ran(<<Log("Running input_fn"), Call("json.loads")>>,
             Outcome(FALSE, NoTensor, "JSONDecodeError"), module_globals)
    ELSE LET data == getitem_inputs(parsed.val) IN
         IF ~data.ok
         THEN Ran(<<Log("Running input_fn"), Call("json.loads")>>,
                  Outcome(FALSE, NoTensor, data.err), module_globals)
         ELSE Ran(<<Log("Running input_fn"), Call("json.loads"), Call("torch.tensor")>>,
                  torch_tensor(data.value), module_globals)

\* The prediction a model handle returns: `samples` trajectories of `horizon`
\* steps, filled from the context.
Forecast(samples, horizon, fill) == [samples |-> samples, horizon |-> horizon, fill |-> fill]
\* The handlers' local before it is assigned.
NoForecast == Forecast(0, 0, Elem(FALSE, 0))

\* Forecast horizon predict_fn asks for.
PredictionLength == 12
\* Sampled trajectories predict_fn asks for.
NumSamples == 20

\* The model handles the runtime may load: test doubles of the forecasting
\* capability predict(context, prediction_length, num_samples).
\*   "naive"     repeats the last observation; rejects an empty context and
\*               a context of rank above 2 (shape mismatch);
\*   "constant"  returns the same forecast for every context;
\*   "exhausted" always fails (resource exhaustion).
Handles == {"naive", "constant", "exhausted"}

model_predict(model_artifacts, context, prediction_length, num_samples) ==
    CASE model_artifacts = "naive" ->
            IF Len(context.data) = 0 \/ Len(context.shape) > 2
            THEN Outcome(FALSE, NoForecast, "ValueError")
            ELSE Outcome(TRUE, Forecast(num_samples, prediction_length,
                                        context.data[Len(context.data)]), "")
      [] model_artifacts = "constant" ->
            Outcome(TRUE, Forecast(num_samples, prediction_length, Elem(FALSE, 4)), "")
      [] OTHER -> Outcome(FALSE, NoForecast, "RuntimeError")

\* What the model handle saw and answered in one call of its predict.
Invocation(context, prediction_length, num_samples, out) ==
    [context |-> context, prediction_length |-> prediction_length,
     num_samples |-> num_samples, ok |-> out.ok, value |-> out.value, err |-> out.err]

\* What one call of predict_fn did: its events, the calls the model handle
\* received, and how it ended.
RanModel(events, calls, out, globals) ==
    [events |-> events, calls |-> calls, ok |-> out.ok, value |-> out.value, err |-> out.err,
     globals |-> globals]

\* A predict_fn with the two keyword values exchanged.
predict_fn_swapped(input_object, model_artifacts) ==
    LET predictions == model_predict(model_artifacts, input_object,
                                     NumSamples, PredictionLength) IN
    RanModel(<<Log("Running predict_fn"), Call("model_artifacts.predict")>>,
             <<Invocation(input_object, NumSamples, PredictionLength, predictions)>>,
             predictions, module_globals)

\* A predict_fn that tries the model a second time when it raises.
predict_fn_retry(input_object, model_artifacts) ==
    LET predictions == model_predict(model_artifacts, input_object,
                                     PredictionLength, NumSamples)
        one == Invocation(input_object, PredictionLength, NumSamples, predictions) IN
    RanModel(<<Log("Running predict_fn"), Call("model_artifacts.predict")>>,
             IF predictions.ok THEN <<one>> ELSE <<one, one>>,
             predictions, module_globals)

\* predict_fn(input_object, model_artifacts)
predict_fn(input_object, model_artifacts) ==
    LET val_ts_tensor == input_object
        predictions == model_predict(model_artifacts, val_ts_tensor,
                                     PredictionLength, NumSamples) IN
    RanModel(<<Log("Running predict_fn"), Call("model_artifacts.predict")>>,
             <<Invocation(val_ts_tensor, PredictionLength, NumSamples, predictions)>>,
             predictions, module_globals)

\* An output_fn that writes one trajectory when CSV is asked for.
output_fn_csv(predictions, content_type) ==
    Ran(<<Log("Running output_fn")>>,
        Outcome(TRUE,
                IF content_type = "text/csv"
                THEN Forecast(1, predictions.horizon, predictions.fill)
                ELSE predictions, ""),
        module_globals)

\* output_fn(predictions, content_type)
output_fn(predictions, content_type) ==
    Ran(<<Log("Running output_fn")>>, Outcome(TRUE, predictions, ""), module_globals)

Step(fn, ran) == [fn |-> fn, events |-> ran.events, ok |-> ran.ok]
LogLines(r, events) ==
    [j \in 1..Len(SelectSeq(events, LAMBDA e : e.ev = "log")) |->
        [req |-> r, msg |-> SelectSeq(events, LAMBDA e : e.ev = "log")[j].msg]]
Stamp(r, invocations) == [j \in 1..Len(invocations) |-> [req |-> r, call |-> invocations[j]]]

InitWith(handles, bodies, started) ==
    /\ model \in handles
    /\ pc = [r \in Requests |-> IF r \in started THEN "received" ELSE "idle"]
    /\ \E b \in bodies, c \in ContentTypes :
          /\ req_body = [r \in Requests |-> IF r \in started THEN b ELSE <<>>]
          /\ req_content_type = [r \in Requests |-> IF r \in started THEN c ELSE ""]
    /\ accept = [r \in Requests |-> ""]
    /\ tensor = [r \in Requests |-> NoTensor]
    /\ prediction = [r \in Requests |-> NoForecast]
    /\ response = [r \in Requests |-> NoForecast]
    /\ error = [r \in Requests |-> ""]
    /\ trace = [r \in Requests |-> <<>>]
    /\ log = <<>>
    /\ model_calls = <<>>
    /\ module_globals = ModuleGlobals

\* The endpoint after start-up: model loaded, no request yet.
Init == InitWith(Handles, PipelineBodies, {})

\* The runtime receives a request.
Receive(r) ==
    /\ pc[r] = "idle"
    /\ \E b \in PipelineBodies, c \in ContentTypes :
          /\ req_body' = [req_body EXCEPT ![r] = b]
          /\ req_content_type' = [req_content_type EXCEPT ![r] = c]
    /\ pc' = [pc EXCEPT ![r] = "received"]
    /\ UNCHANGED <<model, accept, tensor, prediction, response,
                   error, trace, log, model_calls, module_globals>>

\* The runtime model_calls input_fn on the request.
InputStep(r) ==
    /\ pc[r] = "received"
    /\ LET ran == input_fn(req_body[r], req_content_type[r]) IN
          /\ trace' = [trace EXCEPT ![r] = Append(@, Step("input_fn", ran))]
          /\ log' = log \o LogLines(r, ran.events)
          /\ module_globals' = ran.globals
          /\ IF ran.ok
             THEN /\ tensor' = [tensor EXCEPT ![r] = ran.value]
                  /\ pc' = [pc EXCEPT ![r] = "deserialized"]
                  /\ error' = error
             ELSE /\ error' = [error EXCEPT ![r] = ran.err]
                  /\ pc' = [pc EXCEPT ![r] = "failed"]
                  /\ tensor' = tensor
    /\ UNCHANGED <<model, req_body, req_content_type, accept,
                   prediction, response, model_calls>>

\* The runtime model_calls predict_fn on what input_fn returned.
PredictStep(r) ==
    /\ pc[r] = "deserialized"
    /\ LET ran == predict_fn(tensor[r], model) IN
          /\ trace' = [trace EXCEPT ![r] = Append(@, Step("predict_fn", ran))]
          /\ log' = log \o LogLines(r, ran.events)
          /\ module_globals' = ran.globals
          /\ model_calls' = model_calls \o Stamp(r, ran.calls)
          /\ IF ran.ok
             THEN /\ prediction' = [prediction EXCEPT ![r] = ran.value]
                  /\ pc' = [pc EXCEPT ![r] = "predicted"]
                  /\ error' = error
             ELSE /\ error' = [error EXCEPT ![r] = ran.err]
                  /\ pc' = [pc EXCEPT ![r] = "failed"]
                  /\ prediction' = prediction
    /\ UNCHANGED <<model, req_body, req_content_type, accept,
                   tensor, response>>

\* The runtime model_calls output_fn on what predict_fn returned.
OutputStep(r) ==
    /\ pc[r] = "predicted"
    /\ \E c \in ContentTypes :
          LET ran == output_fn(prediction[r], c) IN
          /\ accept' = [accept EXCEPT ![r] = c]
          /\ trace' = [trace EXCEPT ![r] = Append(@, Step("output_fn", ran))]
          /\ log' = log \o LogLines(r, ran.events)
          /\ module_globals' = ran.globals
          /\ IF ran.ok
             THEN /\ response' = [response EXCEPT ![r] = ran.value]
                  /\ pc' = [pc EXCEPT ![r] = "done"]
                  /\ error' = error
             ELSE /\ error' = [error EXCEPT ![r] = ran.err]
                  /\ pc' = [pc EXCEPT ![r] = "failed"]
                  /\ response' = response
    /\ UNCHANGED <<model, req_body, req_content_type, tensor,
                   prediction, model_calls>>

Next ==
    \E r \in Requests : Receive(r) \/ InputStep(r) \/ PredictStep(r) \/ OutputStep(r)

Spec == Init /\ [][Next]_vars

\* One call of input_fn on each enumerated body and content type.
InitParse == InitWith({"constant"}, Bodies, {1})
NextParse == \E r \in Requests : InputStep(r)
SpecParse == InitParse /\ [][NextParse]_vars

\* ------------------------------------------------------------ the properties

Started(r) == trace[r] # <<>>
Names(r) == [j \in 1..Len(trace[r]) |-> trace[r][j].fn]
HasStep(r, fn) == \E j \in 1..Len(trace[r]) : trace[r][j].fn = fn
CallsOf(r) == SelectSeq(model_calls, LAMBDA c : c.req = r)
LinesOf(r) == SelectSeq(log, LAMBDA l : l.req = r)
IsPrefix(p, q) == Len(p) <= Len(q) /\ p = SubSeq(q, 1, Len(p))
Pipeline == <<"input_fn", "predict_fn", "output_fn">>
LineOf(fn) ==
    CASE fn = "input_fn" -> "Running input_fn"
      [] fn = "predict_fn" -> "Running predict_fn"
      [] fn = "output_fn" -> "Running output_fn"

\* C1: every call the model handle receives carries the context tensor that
\* predict_fn was given, prediction_length = 12 and num_samples = 20, and
\* what predict_fn returns is what that call returned.
C1_PredictForwards ==
    /\ \A j \in 1..Len(model_calls) :
          /\ model_calls[j].call.context = tensor[model_calls[j].req]
          /\ model_calls[j].call.prediction_length = 12
          /\ model_calls[j].call.num_samples = 20
    /\ \A r \in Requests :
          pc[r] \in {"predicted", "done"} =>
             /\ Len(CallsOf(r)) = 1
             /\ CallsOf(r)[1].call.ok
             /\ prediction[r] = CallsOf(r)[1].call.value
             /\ prediction[r] = model_predict(model, tensor[r], 12, 20).value

C1_Witness ==
    \E r \in Requests :
       pc[r] = "predicted" /\ model = "naive" /\ Len(tensor[r].data) = 4
       /\ prediction[r].horizon = 12

\* C2: what output_fn returns is the prediction it was given, whatever the
\* declared response content type.
C2_OutputIdentity ==
    \A r \in Requests :
       pc[r] = "done" =>
          /\ response[r] = prediction[r]
          /\ HasStep(r, "output_fn")
          /\ accept[r] \in ContentTypes

C2_Witness ==
    \E r1, r2 \in Requests :
       /\ pc[r1] = "done" /\ pc[r2] = "done"
       /\ accept[r1] = "text/csv" /\ accept[r2] = "application/json"
       /\ response[r1] # NoForecast

\* A body the JSON grammar accepts, and its top-level value.
ValidJSON(body) == decode(body, FALSE).ok
\* A valid-JSON body whose top-level value carries `inputs`.
HasInputs(body) == ValidJSON(body) /\ getitem_inputs(decode(body, FALSE).val).ok
InputsOf(body) == getitem_inputs(decode(body, FALSE).val).value

\* C3: a body that is not valid JSON, or whose top-level value lacks
\* `inputs`, makes input_fn fail and return no tensor.
C3_BadBodyFails ==
    \A r \in Requests :
       (Started(r) /\ ~HasInputs(req_body[r])) =>
          (pc[r] = "failed" /\ error[r] # "" /\ tensor[r] = NoTensor)

\* C3, the part the code keeps: a body json.loads rejects, or whose top-level
\* value lacks `inputs`, makes input_fn fail and return no tensor.
C3_RejectedBodyFails ==
    \A r \in Requests :
       (Started(r) /\ (~json_loads(req_body[r]).ok
                       \/ ~getitem_inputs(json_loads(req_body[r]).val).ok)) =>
          (pc[r] = "failed" /\ error[r] # "" /\ tensor[r] = NoTensor)

\* Every leaf of the value is a JSON number.
RECURSIVE OnlyNumbers(_)
OnlyNumbers(v) ==
    \/ v.k = "int"
    \/ v.k = "list" /\ \A j \in 1..Len(v.items) : OnlyNumbers(v.items[j])

\* C4: input_fn returns a tensor only when every leaf of `inputs` is a JSON
\* number; a boolean, null, string or object anywhere makes it fail.
C4_NonNumericFails ==
    \A r \in Requests :
       (Started(r) /\ HasInputs(req_body[r]) /\ ~OnlyNumbers(InputsOf(req_body[r]))) =>
          (pc[r] = "failed" /\ tensor[r] = NoTensor)

\* A number, a flat list of numbers, or rows of numbers of one length.
IsNumberList(v) == v.k = "list" /\ \A j \in 1..Len(v.items) : v.items[j].k = "int"
UniformNumeric(v) ==
    \/ v.k = "int"
    \/ IsNumberList(v)
    \/ /\ v.k = "list"
       /\ \A j \in 1..Len(v.items) :
             IsNumberList(v.items[j]) /\ Len(v.items[j].items) = Len(v.items[1].items)

RECURSIVE ShapeOf(_)
ShapeOf(v) ==
    IF v.k # "list" THEN <<>>
    ELSE IF v.items = <<>> THEN <<0>>
    ELSE <<Len(v.items)>> \o ShapeOf(v.items[1])

RECURSIVE Flatten(_)
RECURSIVE FlattenFrom(_, _)
FlattenFrom(items, j) ==
    IF j > Len(items) THEN <<>> ELSE Flatten(items[j]) \o FlattenFrom(items, j + 1)
Flatten(v) == IF v.k = "list" THEN FlattenFrom(v.items, 1) ELSE <<v.n>>

ValidPayload(body) == HasInputs(body) /\ UniformNumeric(InputsOf(body))

\* An integer bfloat16 holds exactly: 8 significant bits.
Representable(m) == Abs(m) % Pow2(IF FloorLog2(Abs(m)) > 7 THEN FloorLog2(Abs(m)) - 7 ELSE 0) = 0
\* e is a bfloat16 value no further from n than half the spacing at n.
NearestBF16(e, n) ==
    /\ Representable(e)
    /\ 2 * Abs(e - n) <= Pow2(IF FloorLog2(Abs(n)) > 7 THEN FloorLog2(Abs(n)) - 7 ELSE 0)

\* C5 as stated: for a valid payload the tensor has the shape of `inputs`
\* and the same elements in the same order.
C5_SameElements ==
    \A r \in Requests :
       (Started(r) /\ ValidPayload(req_body[r])) =>
          /\ pc[r] = "deserialized"
          /\ tensor[r].shape = ShapeOf(InputsOf(req_body[r]))
          /\ tensor[r].data =
                [j \in 1..Len(Flatten(InputsOf(req_body[r]))) |->
                    Elem(FALSE, Flatten(InputsOf(req_body[r]))[j])]

\* C5 amended: for a valid payload the tensor has the shape of `inputs` and
\* one element per number, in the same order, each the bfloat16 nearest to
\* its number.
C5_ShapeAndRoundedElements ==
    \A r \in Requests :
       (Started(r) /\ ValidPayload(req_body[r])) =>
          LET leaves == Flatten(InputsOf(req_body[r])) IN
          /\ pc[r] = "deserialized"
          /\ tensor[r].shape = ShapeOf(InputsOf(req_body[r]))
          /\ Len(tensor[r].data) = Len(leaves)
          /\ \A j \in 1..Len(leaves) :
                ~tensor[r].data[j].nan /\ NearestBF16(tensor[r].data[j].n, leaves[j])

C5_Witness ==
    \E r \in Requests :
       /\ Started(r) /\ ValidPayload(req_body[r])
       /\ tensor[r].shape = <<2, 2>>
       /\ tensor[r].data[1].n = 1000 /\ tensor[r].data[4].n = -260

\* C6: the model handle is called once per call of predict_fn, and when it
\* raises, predict_fn ends with that error and returns nothing.
C6_ModelErrorPropagates ==
    \A r \in Requests :
       /\ Len(CallsOf(r)) = (IF HasStep(r, "predict_fn") THEN 1 ELSE 0)
       /\ \A j \in 1..Len(CallsOf(r)) :
             ~CallsOf(r)[j].call.ok =>
                /\ pc[r] = "failed"
                /\ error[r] = CallsOf(r)[j].call.err
                /\ prediction[r] = NoForecast
                /\ response[r] = NoForecast
                /\ ~trace[r][Len(trace[r])].ok
                /\ trace[r][Len(trace[r])].fn = "predict_fn"

C6_Witness ==
    \E r1, r2 \in Requests :
       /\ pc[r1] = "failed" /\ error[r1] = "RuntimeError" /\ Len(CallsOf(r1)) = 1
       /\ pc[r2] = "failed" /\ error[r2] = "RuntimeError" /\ Len(CallsOf(r2)) = 1
       /\ r1 # r2

\* C7: the handlers of a request run in the order input_fn, predict_fn,
\* output_fn, each on the result of the one before; a failed handler is the
\* last one run, so a payload that does not deserialize never reaches the
\* model and a request that failed has no response.
C7_LinearPipeline ==
    \A r \in Requests :
       /\ IsPrefix(Names(r), Pipeline)
       /\ \A j \in 1..Len(trace[r]) : j < Len(trace[r]) => trace[r][j].ok
       /\ HasStep(r, "predict_fn") =>
             /\ Deserialized(req_body[r]).ok
             /\ tensor[r] = Deserialized(req_body[r]).value
             /\ CallsOf(r)[1].call.context = tensor[r]
       /\ (Started(r) /\ ~Deserialized(req_body[r]).ok) =>
             /\ pc[r] = "failed"
             /\ CallsOf(r) = <<>>
             /\ Names(r) = <<"input_fn">>
       /\ HasStep(r, "output_fn") =>
             /\ CallsOf(r)[1].call.ok
             /\ response[r] = CallsOf(r)[1].call.value
       /\ pc[r] = "failed" =>
             /\ response[r] = NoForecast
             /\ ~HasStep(r, "output_fn")
             /\ ~trace[r][Len(trace[r])].ok

C7_Witness ==
    \E r1, r2 \in Requests :
       /\ pc[r1] = "failed" /\ Names(r1) = <<"input_fn">> /\ error[r1] = "JSONDecodeError"
       /\ pc[r2] = "failed" /\ Names(r2) = <<"input_fn", "predict_fn">>

\* C8: each handler call emits one log line, its first event, also when the
\* call then fails; a request that ran all three handlers has three lines,
\* in the order input_fn, predict_fn, output_fn.
C8_OneLineOnEntry ==
    \A r \in Requests :
       /\ \A j \in 1..Len(trace[r]) :
             LET ev == trace[r][j].events IN
             /\ ev # <<>>
             /\ ev[1] = [ev |-> "log", msg |-> LineOf(trace[r][j].fn)]
             /\ \A i \in 2..Len(ev) : ev[i].ev # "log"
       /\ Len(LinesOf(r)) = Len(trace[r])
       /\ \A j \in 1..Len(LinesOf(r)) : LinesOf(r)[j].msg = LineOf(Pipeline[j])
       /\ pc[r] = "done" => Len(LinesOf(r)) = 3

C8_Witness ==
    \E r1, r2 \in Requests :
       /\ pc[r1] = "done" /\ Len(LinesOf(r1)) = 3
       /\ pc[r2] = "failed" /\ error[r2] = "KeyError" /\ Len(LinesOf(r2)) = 1
       /\ log[1].req = r1 /\ log[2].req = r2

\* C9: the module holds after any requests what it held before the first,
\* and what a request gets depends on its payload and the model handle
\* alone: two requests with the same payload get the same tensor or error,
\* and the same prediction or error.
C9_NothingRetained ==
    /\ module_globals = [level |-> "INFO", handlers |-> 1, held |-> <<>>]
    /\ \A r1, r2 \in Requests :
          (Started(r1) /\ Started(r2) /\ req_body[r1] = req_body[r2]) =>
             /\ tensor[r1] = tensor[r2]
             /\ trace[r1][1] = trace[r2][1]
             /\ (Len(trace[r1]) = 1 /\ Len(trace[r2]) = 1) => error[r1] = error[r2]
             /\ (HasStep(r1, "predict_fn") /\ HasStep(r2, "predict_fn")) =>
                   /\ prediction[r1] = prediction[r2]
                   /\ CallsOf(r1) = [j \in 1..Len(CallsOf(r2)) |->
                                        [CallsOf(r2)[j] EXCEPT !.req = r1]]
    /\ \A r \in Requests :
          Started(r) =>
             /\ tensor[r] = Deserialized(req_body[r]).value
             /\ trace[r][1].ok = Deserialized(req_body[r]).ok

C9_Witness ==
    /\ pc[1] = "done" /\ pc[2] = "done"
    /\ req_body[1] = req_body[2]
    /\ log[1].req = 1 /\ log[2].req = 2 /\ log[3].req = 1
    /\ tensor[1] # NoTensor

\* C10: two requests with the same body and different declared content
\* types get the same outcome of input_fn.
C10_ContentTypeIgnored ==
    \A r1, r2 \in Requests :
       (Started(r1) /\ Started(r2) /\ req_body[r1] = req_body[r2]
        /\ req_content_type[r1] # req_content_type[r2]) =>
          /\ trace[r1][1].ok = trace[r2][1].ok
          /\ trace[r1][1].events = trace[r2][1].events
          /\ tensor[r1] = tensor[r2]
          /\ (~trace[r1][1].ok) => (error[r1] = error[r2])

C10_Witness ==
    \E r1, r2 \in Requests :
       /\ Started(r1) /\ Started(r2) /\ req_body[r1] = req_body[r2]
       /\ req_content_type[r1] = "text/csv" /\ req_content_type[r2] = "application/json"
       /\ pc[r1] = "deserialized" /\ tensor[r1].shape = <<3>>

====
